---- MODULE Spec2Model ----
(***************************************************************************)
(* Model of src/server.js: the source allow-list (isAllowedSource), the    *)
(* text checks of the article route (tag stripping, word count, disclaimer *)
(* and claim/citation regular expressions) and the handler of              *)
(* POST /api/gpt5/article, split at its single await.                      *)
(*                                                                         *)
(* Strings are sequences of one-character strings.  Article HTML is a      *)
(* sequence of symbols: " " (whitespace), "1" (an ASCII digit, which is    *)
(* also a \w character), "<" ">" "[" "]" (punctuation), "V" (one of the     *)
(* Arabic claim verbs of line 150, made of non-\w, non-space characters),  *)
(* "D" (the literal "Disclaimer" of line 147, made of \w characters) and   *)
(* "PAD" (a run " w w ... w " of PadWords plain ASCII words, with          *)
(* whitespace at both ends).                                               *)
(***************************************************************************)
EXTENDS Integers, Sequences, FiniteSets, TLC

VARIABLES pc, req, reasons, calls, genResult, genOut, status, body, srcUrl, srcResult

vars == <<pc, req, reasons, calls, genResult, genOut, status, body, srcUrl, srcResult>>

(***************************************************************************)
(* Bounds of the model and constants of the program                        *)
(***************************************************************************)
MaxSourcesLen == 7
MaxHtmlLen == 3

MinSources == 3
MaxSources == 6
MinWords == 1200
MinSecondaryKeywords == 3

PadWords == MinWords - 1

(***************************************************************************)
(* Strings                                                                 *)
(***************************************************************************)
Upper == <<"A","B","C","D","E","F","G","H","I","J","K","L","M","N","O","P","Q","R","S","T","U","V","W","X","Y","Z">>
Lower == <<"a","b","c","d","e","f","g","h","i","j","k","l","m","n","o","p","q","r","s","t","u","v","w","x","y","z">>

IsAlpha(c) == \E i \in 1..26 : c = Upper[i] \/ c = Lower[i]

ToLowerChar(c) ==
  IF \E i \in 1..26 : c = Upper[i]
  THEN Lower[CHOOSE i \in 1..26 : c = Upper[i]]
  ELSE c

toLowerCase(s) == [i \in 1..Len(s) |-> ToLowerChar(s[i])]

endsWith(s, suffix) ==
  /\ Len(suffix) <= Len(s)
  /\ SubSeq(s, Len(s) - Len(suffix) + 1, Len(s)) = suffix

FirstIndex(s, c) ==
  IF \E i \in 1..Len(s) : s[i] = c
  THEN CHOOSE i \in 1..Len(s) : s[i] = c /\ \A j \in 1..(i-1) : s[j] # c
  ELSE 0

RECURSIVE TrimLeft(_)
TrimLeft(s) == IF Len(s) > 0 /\ s[1] = " " THEN TrimLeft(Tail(s)) ELSE s

RECURSIVE TrimRight(_)
TrimRight(s) ==
  IF Len(s) > 0 /\ s[Len(s)] = " " THEN TrimRight(SubSeq(s, 1, Len(s) - 1)) ELSE s

RECURSIVE SkipSlashes(_)
SkipSlashes(s) == IF Len(s) > 0 /\ s[1] = "/" THEN SkipSlashes(Tail(s)) ELSE s

UpTo(s, c) == IF FirstIndex(s, c) = 0 THEN s ELSE SubSeq(s, 1, FirstIndex(s, c) - 1)

(***************************************************************************)
(* SourceValidator                                                         *)
(***************************************************************************)
SAFE_DOMAINS ==
  << <<"w","h","o",".","i","n","t">>,
     <<"c","d","c",".","g","o","v">>,
     <<"n","h","s",".","u","k">>,
     <<"p","u","b","m","e","d",".","n","c","b","i",".","n","l","m",".","n","i","h",".","g","o","v">>,
     <<"n","c","b","i",".","n","l","m",".","n","i","h",".","g","o","v">>,
     <<"m","a","y","o","c","l","i","n","i","c",".","o","r","g">>,
     <<"n","i","h",".","g","o","v">> >>

DotGov == <<".","g","o","v">>
DotEdu == <<".","e","d","u">>

SpecialSchemes ==
  { <<"h","t","t","p">>, <<"h","t","t","p","s">>, <<"f","t","p">> }

\* new URL(url) of line 18, for inputs without userinfo, port, query or
\* fragment: ok = FALSE stands for the TypeError the constructor throws.
NewURL(url) ==
  LET t     == TrimRight(TrimLeft(url))
      colon == FirstIndex(t, ":")
      bad   == [ok |-> FALSE, hostname |-> <<>>]
  IN  IF colon < 2 \/ \E i \in 1..(colon - 1) : ~IsAlpha(t[i])
      THEN bad
      ELSE LET scheme == toLowerCase(SubSeq(t, 1, colon - 1))
               rest   == SubSeq(t, colon + 1, Len(t))
           IN  IF scheme \in SpecialSchemes
               THEN LET host == UpTo(SkipSlashes(rest), "/")
                    IN  IF host = <<>> \/ FirstIndex(host, " ") # 0
                        THEN bad
                        ELSE [ok |-> TRUE, hostname |-> toLowerCase(host)]
               ELSE IF Len(rest) >= 2 /\ rest[1] = "/" /\ rest[2] = "/"
                    THEN LET host == UpTo(SubSeq(rest, 3, Len(rest)), "/")
                         IN  IF FirstIndex(host, " ") # 0
                             THEN bad
                             ELSE [ok |-> TRUE, hostname |-> host]
                    ELSE [ok |-> TRUE, hostname |-> <<>>]

isAllowedSource_NoDot(url) ==
  LET u == NewURL(url)
  IN  IF ~u.ok THEN FALSE
      ELSE LET d == toLowerCase(u.hostname)
           IN  IF \E i \in DOMAIN SAFE_DOMAINS :
                     d = SAFE_DOMAINS[i] \/ endsWith(d, SAFE_DOMAINS[i])
               THEN TRUE
               ELSE endsWith(d, DotGov) \/ endsWith(d, DotEdu)

isAllowedSource(url) ==
  LET u == NewURL(url)
  IN  IF ~u.ok THEN FALSE
      ELSE LET d == toLowerCase(u.hostname)
           IN  IF \E i \in DOMAIN SAFE_DOMAINS :
                     d = SAFE_DOMAINS[i] \/ endsWith(d, <<".">> \o SAFE_DOMAINS[i])
               THEN TRUE
               ELSE endsWith(d, DotGov) \/ endsWith(d, DotEdu)

(***************************************************************************)
(* Text checks of the article route                                        *)
(***************************************************************************)
HtmlSymbols == {" ", "1", "<", ">", "[", "]", "V", "D", "PAD"}

\* /<[^>]+>/ anchored at the "<" of position i: the position of the closing
\* ">", or 0 when the expression does not match there.
TagEnd(h, i) ==
  LET js == {j \in (i+1)..Len(h) : h[j] = ">"}
  IN  IF js = {} THEN 0
      ELSE LET j == CHOOSE x \in js : \A y \in js : x <= y
           IN  IF j >= i + 2 THEN j ELSE 0

RECURSIVE StripFrom(_, _)
StripFrom(h, i) ==
  IF i > Len(h) THEN <<>>
  ELSE IF h[i] = "<" /\ TagEnd(h, i) # 0
       THEN <<" ">> \o StripFrom(h, TagEnd(h, i) + 1)
       ELSE <<h[i]>> \o StripFrom(h, i + 1)

StripTags(h) == StripFrom(h, 1)

EdgeIsSpace(sym) == sym \in {" ", "PAD"}

RECURSIVE CountFrom(_, _)
CountFrom(t, i) ==
  IF i > Len(t) THEN 0
  ELSE (IF t[i] = "PAD" THEN PadWords
        ELSE IF t[i] # " " /\ (i = 1 \/ EdgeIsSpace(t[i-1])) THEN 1
        ELSE 0) + CountFrom(t, i + 1)

\* (textOnly.match(/\S+/g)||[]).length
WordCount(t) == CountFrom(t, 1)

\* /...|Disclaimer/i.test(textOnly)
hasDisclaimer(t) == \E i \in 1..Len(t) : t[i] = "D"

\* \w of a regular expression without the u flag: [A-Za-z0-9_]
EdgeIsWordChar(sym) == sym \in {"1", "D"}

\* \b between positions k and k+1 of t (k = 0: start, k = Len(t): end)
WordBoundary(t, k) ==
  LET left  == k >= 1 /\ EdgeIsWordChar(t[k])
      right == k + 1 <= Len(t) /\ EdgeIsWordChar(t[k+1])
  IN  left # right

hasClaims(t) ==
  \E i \in 1..Len(t) : t[i] = "V" /\ WordBoundary(t, i - 1) /\ WordBoundary(t, i)

hasCites(h) ==
  \E i \in 1..Len(h) : \E j \in (i+2)..Len(h) :
     /\ h[i] = "["
     /\ h[j] = "]"
     /\ \A k \in (i+1)..(j-1) : h[k] = "1"

TooShort_OffByOne(wc) == wc <= MinWords

TooShort(wc) == wc < MinWords

(***************************************************************************)
(* Values of the article route                                             *)
(***************************************************************************)
Reason(k) == [kind |-> k, urls |-> <<>>]

\* JavaScript truthiness of a request field that is absent, "" or a string
Truthy(v) == v \notin {"undefined", ""}

\* The source strings a request draws from, and the characters of each
SourcePool == {"https://cdc.gov", "https://example.com", "cdc.gov"}

Chars(s) ==
  CASE s = "https://cdc.gov" ->
         <<"h","t","t","p","s",":","/","/","c","d","c",".","g","o","v">>
    [] s = "https://example.com" ->
         <<"h","t","t","p","s",":","/","/","e","x","a","m","p","l","e",".","c","o","m">>
    [] s = "cdc.gov" ->
         <<"c","d","c",".","g","o","v">>

\* isAllowedSource on each string of the pool
SourceVerdict == [s \in SourcePool |-> isAllowedSource(Chars(s))]

SourceLists == UNION {[1..n -> SourcePool] : n \in 0..MaxSourcesLen}

\* p.sources: absent, a truthy value that is not an array (a string), or an array
SourcesValues ==
  {[type |-> "undefined", items |-> <<>>], [type |-> "string", items |-> <<>>]}
  \cup {[type |-> "array", items |-> s] : s \in SourceLists}

\* p.internalLinks: absent (an array behaves the same) or a truthy non-array
LinkTypes == {"undefined", "string"}

Requests ==
  [topic : {"undefined", "", "t"},
   primaryKeyword : {"undefined", "k"},
   outline : {"undefined", "o"},
   sources : SourcesValues,
   internalLinks : LinkTypes]

NoRequest ==
  [topic |-> "undefined", primaryKeyword |-> "undefined", outline |-> "undefined",
   sources |-> [type |-> "undefined", items |-> <<>>], internalLinks |-> "undefined"]

AllKeys == {"article", "metadata", "gate"}

NoArticle ==
  [articleTitle |-> "undefined", articleHtmlContent |-> <<>>,
   secondaryKeywords |-> [isArray |-> FALSE, items |-> <<>>]]

NoMetadata ==
  [metaTitle |-> "undefined", metaDescription |-> "undefined",
   socialTitle |-> "undefined", socialDescription |-> "undefined"]

NoGate == [blocked |-> FALSE, reasons |-> <<>>, claimsNeedingCitations |-> <<>>]

NoOutput == [keys |-> {}, article |-> NoArticle, metadata |-> NoMetadata, gate |-> NoGate]

NoBody ==
  [kind |-> "none", keys |-> {}, article |-> NoArticle, metadata |-> NoMetadata,
   gate |-> NoGate, message |-> ""]

JsonBody(o) ==
  [kind |-> "json", keys |-> o.keys, article |-> o.article, metadata |-> o.metadata,
   gate |-> o.gate, message |-> ""]

TextBody(m) ==
  [kind |-> "text", keys |-> {}, article |-> NoArticle, metadata |-> NoMetadata,
   gate |-> NoGate, message |-> m]

(***************************************************************************)
(* What gpt5Structured can return: JSON.parse of the model's content.      *)
(* response_format carries the schema without strict, so a top-level key   *)
(* may be missing; empty content parses as {}.                             *)
(***************************************************************************)
Htmls == UNION {[1..n -> HtmlSymbols] : n \in 0..MaxHtmlLen}

KeywordList(n) == [isArray |-> TRUE, items |-> [i \in 1..n |-> "k"]]

\* secondaryKeywords: an array around the minimum, or a string
KeywordLists ==
  {KeywordList(MinSecondaryKeywords - 1), KeywordList(MinSecondaryKeywords),
   [isArray |-> FALSE, items |-> <<"k", "k", "k">>]}

GenArticles ==
  [articleTitle : {"T"}, articleHtmlContent : Htmls, secondaryKeywords : KeywordLists]

GenMetadata ==
  [metaTitle |-> "mt", metaDescription |-> "md",
   socialTitle |-> "st", socialDescription |-> "sd"]

GenGates ==
  [blocked : BOOLEAN,
   reasons : {<<>>, <<Reason("selfReported")>>},
   claimsNeedingCitations : {<<>>, <<"selfReported">>}]

\* An object that lacks a top-level key is drawn with enough keywords and a
\* clean gate: what it lacks is its only defect.
PartialArticles ==
  [articleTitle : {"T"}, articleHtmlContent : Htmls,
   secondaryKeywords : {KeywordList(MinSecondaryKeywords)}]

\* The top-level keys of the returned object: all three, or fewer
KeyShapes ==
  << AllKeys, {"article", "gate"}, {"article", "metadata"}, {"metadata", "gate"},
     {"article"}, {"metadata"}, {"gate"}, {} >>

ArticlesOf(k) ==
  IF k = AllKeys THEN GenArticles
  ELSE IF "article" \in k THEN PartialArticles ELSE {NoArticle}

CleanGate == [blocked |-> FALSE, reasons |-> <<>>, claimsNeedingCitations |-> <<>>]

GatesOf(k) ==
  IF k = AllKeys THEN GenGates
  ELSE IF "gate" \in k THEN {CleanGate} ELSE {NoGate}

GenOutput(k, a, g) ==
  [keys |-> k, article |-> a,
   metadata |-> IF "metadata" \in k THEN GenMetadata ELSE NoMetadata,
   gate |-> g]

FailureMessages == {"transport error", "invalid JSON"}

(***************************************************************************)
(* POST /api/gpt5/article: pre-validation                                  *)
(***************************************************************************)
RequiredReason(p) ==
  IF ~Truthy(p.topic) \/ ~Truthy(p.primaryKeyword) \/ ~Truthy(p.outline)
  THEN <<Reason("required")>> ELSE <<>>

CountReason(p) ==
  IF \/ p.sources.type # "array"
     \/ Len(p.sources.items) < MinSources
     \/ Len(p.sources.items) > MaxSources
  THEN <<Reason("sourceCount")>> ELSE <<>>

\* (p.sources||[]).filter(s => !isAllowedSource(s)), for p.sources absent or an array
BadSources(p) == SelectSeq(p.sources.items, LAMBDA s : ~SourceVerdict[s])

UntrustedReason(bad) ==
  IF Len(bad) > 0 THEN <<[kind |-> "untrusted", urls |-> bad]>> ELSE <<>>

BlockedPreResponse_NotBlocked(p, rs) ==
  JsonBody([keys |-> AllKeys,
            article |-> [articleTitle |-> IF Truthy(p.topic) THEN p.topic ELSE "",
                         articleHtmlContent |-> <<>>,
                         secondaryKeywords |-> [isArray |-> TRUE, items |-> <<>>]],
            metadata |-> [metaTitle |-> "", metaDescription |-> "",
                          socialTitle |-> "", socialDescription |-> ""],
            gate |-> [blocked |-> FALSE, reasons |-> rs,
                      claimsNeedingCitations |-> <<>>]])

BlockedPreResponse(p, rs) ==
  JsonBody([keys |-> AllKeys,
            article |-> [articleTitle |-> IF Truthy(p.topic) THEN p.topic ELSE "",
                         articleHtmlContent |-> <<>>,
                         secondaryKeywords |-> [isArray |-> TRUE, items |-> <<>>]],
            metadata |-> [metaTitle |-> "", metaDescription |-> "",
                          socialTitle |-> "", socialDescription |-> ""],
            gate |-> [blocked |-> TRUE, reasons |-> rs,
                      claimsNeedingCitations |-> <<>>]])

(***************************************************************************)
(* POST /api/gpt5/article: post-validation                                 *)
(***************************************************************************)
StructuralFindings(textOnly, kw) ==
  (IF TooShort(WordCount(textOnly)) THEN <<Reason("tooShort")>> ELSE <<>>)
  \o (IF ~hasDisclaimer(textOnly) THEN <<Reason("noDisclaimer")>> ELSE <<>>)
  \o (IF ~kw.isArray \/ Len(kw.items) < MinSecondaryKeywords
      THEN <<Reason("fewKeywords")>> ELSE <<>>)

ClaimFindings(textOnly, html) ==
  IF hasClaims(textOnly) /\ ~hasCites(html) THEN <<"uncitedClaims">> ELSE <<>>

PushFindings_Overwrite(gate, rs, cs) ==
  [gate EXCEPT !.reasons = IF Len(rs) > 0 THEN rs ELSE @,
               !.claimsNeedingCitations = IF Len(cs) > 0 THEN cs ELSE @]

PushFindings(gate, rs, cs) ==
  [gate EXCEPT !.reasons = @ \o rs, !.claimsNeedingCitations = @ \o cs]

Aggregate_IgnoreClaims(gate) ==
  IF Len(gate.reasons) > 0 \/ gate.blocked
  THEN [gate EXCEPT !.blocked = TRUE]
  ELSE gate

Aggregate(gate) ==
  IF Len(gate.reasons) > 0 \/ gate.blocked \/ Len(gate.claimsNeedingCitations) > 0
  THEN [gate EXCEPT !.blocked = TRUE]
  ELSE gate

\* Lines 144-154 on the object gpt5Structured returned.  threw: a property of
\* a missing article or gate is read (TypeError), which line 156 catches.
PostValidate(out) ==
  LET hasA     == "article" \in out.keys
      hasG     == "gate" \in out.keys
      html     == IF hasA THEN out.article.articleHtmlContent ELSE <<>>
      textOnly == StripTags(html)
      rs       == StructuralFindings(textOnly, out.article.secondaryKeywords)
      cs       == ClaimFindings(textOnly, html)
  IN  IF ~hasA \/ ~hasG
      THEN [threw |-> TRUE, out |-> out]
      ELSE [threw |-> FALSE,
            out |-> [out EXCEPT !.gate = Aggregate(PushFindings(out.gate, rs, cs))]]

(***************************************************************************)
(* The handler, split at the await of line 142                             *)
(***************************************************************************)
Respond(st, b) ==
  /\ pc' = "done"
  /\ status' = st
  /\ body' = b

ArticleRequest ==
  /\ pc = "idle"
  /\ \E p \in Requests :
       LET r2 == RequiredReason(p) \o CountReason(p)
           r3 == r2 \o UntrustedReason(BadSources(p))
       IN  /\ req' = p
           /\ IF p.sources.type = "string"
              THEN \* line 132: a string has no filter method
                   /\ reasons' = r2
                   /\ Respond(400, TextBody("TypeError"))
                   /\ UNCHANGED calls
              ELSE /\ reasons' = r3
                   /\ IF Len(r3) > 0
                      THEN Respond(200, BlockedPreResponse(p, r3)) /\ UNCHANGED calls
                      ELSE IF p.internalLinks = "string"
                      THEN \* line 112, evaluated for the argument of line 142
                           Respond(400, TextBody("TypeError")) /\ UNCHANGED calls
                      ELSE /\ pc' = "generating"
                           /\ calls' = calls + 1
                           /\ UNCHANGED <<status, body>>
  /\ UNCHANGED <<genResult, genOut, srcUrl, srcResult>>

GenerationFails ==
  /\ pc = "generating"
  /\ \E m \in FailureMessages :
       /\ genResult' = "threw"
       /\ Respond(400, TextBody(m))
  /\ UNCHANGED <<req, reasons, calls, genOut, srcUrl, srcResult>>

GenerationReturns ==
  /\ pc = "generating"
  /\ \E n \in DOMAIN KeyShapes :
     \E a \in ArticlesOf(KeyShapes[n]) : \E g \in GatesOf(KeyShapes[n]) :
       LET out == GenOutput(KeyShapes[n], a, g)
           r   == PostValidate(out)
       IN  /\ genResult' = "returned"
           /\ genOut' = out
           /\ IF r.threw
              THEN Respond(400, TextBody("TypeError"))
              ELSE Respond(200, JsonBody(r.out))
  /\ UNCHANGED <<req, reasons, calls, srcUrl, srcResult>>

NoUrl == <<>>

Init ==
  /\ pc = "idle"
  /\ req = NoRequest
  /\ reasons = <<>>
  /\ calls = 0
  /\ genResult = "none"
  /\ genOut = NoOutput
  /\ status = 0
  /\ body = NoBody
  /\ srcUrl = NoUrl
  /\ srcResult = "pending"

Next == ArticleRequest \/ GenerationFails \/ GenerationReturns

Spec == Init /\ [][Next]_vars

(***************************************************************************)
(* isAllowedSource on its own: one call on one input                       *)
(***************************************************************************)
UrlPrefixes ==
  { <<>>,
    <<"h","t","t","p","s",":","/","/">>,
    <<"H","T","T","P","S",":","/","/">>,
    <<"f","t","p",":","/","/">>,
    <<"f","o","o",":","/","/">>,
    <<"m","a","i","l","t","o",":">> }

UrlSubdomains == { <<>>, <<"w","w","w",".">>, <<"n","o","t">> }

UrlHosts ==
  {SAFE_DOMAINS[i] : i \in DOMAIN SAFE_DOMAINS}
  \cup { <<>>,
         <<"e","x","a","m","p","l","e",".","c","o","m">>,
         <<"g","o","v">>,
         <<"c","i","t","y",".","g","o","v">>,
         <<"m","i","t",".","e","d","u">>,
         <<"W","H","O",".","I","N","T">>,
         <<"e","d","u",".","c","o","m">>,
         <<"n","i","h",".","g","o","v","x">>,
         <<"n","o","t"," ","a"," ","u","r","l">> }

UrlTails == { <<>>, <<"/","a">>, <<".">>, <<" ">> }

UrlInputs ==
  {a \o b \o c \o d : a \in UrlPrefixes, b \in UrlSubdomains, c \in UrlHosts, d \in UrlTails}

InitSource ==
  /\ pc = "source"
  /\ req = NoRequest
  /\ reasons = <<>>
  /\ calls = 0
  /\ genResult = "none"
  /\ genOut = NoOutput
  /\ status = 0
  /\ body = NoBody
  /\ srcUrl \in UrlInputs
  /\ srcResult = "pending"

CheckSource ==
  /\ pc = "source"
  /\ srcResult = "pending"
  /\ srcResult' = IF isAllowedSource(srcUrl) THEN "true" ELSE "false"
  /\ UNCHANGED <<pc, req, reasons, calls, genResult, genOut, status, body, srcUrl>>

NextSource == CheckSource

SpecSource == InitSource /\ [][NextSource]_vars

(***************************************************************************)
(* Properties                                                              *)
(***************************************************************************)
\* The handler answered with a JSON payload without calling gpt5Structured
BlockedPre == pc = "done" /\ calls = 0 /\ status = 200 /\ body.kind = "json"

\* The handler answered with a JSON payload after gpt5Structured returned
PostResponse ==
  pc = "done" /\ genResult = "returned" /\ status = 200 /\ body.kind = "json"

\* gpt5Structured threw, or returned an object without one of the three keys
GenerationFailed ==
  \/ genResult = "threw"
  \/ genResult = "returned" /\ genOut.keys # AllKeys

IsPrefix(a, b) == Len(a) <= Len(b) /\ SubSeq(b, 1, Len(a)) = a

Appended(a, b) == SubSeq(b, Len(a) + 1, Len(b))

MissingField(p) ==
  p.topic \in {"undefined", ""} \/ p.primaryKeyword \in {"undefined", ""}
    \/ p.outline \in {"undefined", ""}

BadCount(p) ==
  p.sources.type # "array" \/ Len(p.sources.items) \notin MinSources..MaxSources

Rejected(p) ==
  {i \in 1..Len(p.sources.items) : ~SourceVerdict[p.sources.items[i]]}

PreInvalid(p) == MissingField(p) \/ BadCount(p) \/ Rejected(p) # {}

\* C1: a request with at least one pre-validation reason ends in BLOCKED_PRE
\* (a success payload with gate.blocked) and never reaches gpt5Structured.
C1_BlockedBeforeGeneration ==
  (pc # "idle" /\ PreInvalid(req)) =>
     /\ calls = 0
     /\ pc = "done"
     /\ status = 200
     /\ body.kind = "json"
     /\ body.gate.blocked

\* C2: after generation, gate.blocked is true exactly when the final reasons
\* are non-empty, the final claimsNeedingCitations are non-empty, or the
\* self-reported gate.blocked was true.
C2_BlockedIff ==
  PostResponse =>
     (body.gate.blocked <=>
        \/ Len(body.gate.reasons) > 0
        \/ Len(body.gate.claimsNeedingCitations) > 0
        \/ genOut.gate.blocked)

C2_Witness ==
  /\ PostResponse
  /\ body.gate.blocked
  /\ ~genOut.gate.blocked
  /\ body.gate.reasons = <<>>
  /\ body.gate.claimsNeedingCitations # <<>>

\* C3: every request is answered with a success status and an ArticleResponse,
\* except when the gpt5Structured invocation itself failed.
C3_AlwaysSuccessPayload ==
  pc = "done" =>
     \/ status = 200 /\ body.kind = "json"
     \/ status = 400 /\ calls = 1 /\ GenerationFailed

HasDotSuffix(d, sd) ==
  /\ Len(d) > Len(sd)
  /\ d[Len(d) - Len(sd)] = "."
  /\ \A k \in 1..Len(sd) : d[Len(d) - Len(sd) + k] = sd[k]

HostnameTrusted(d) ==
  \/ \E i \in DOMAIN SAFE_DOMAINS : d = SAFE_DOMAINS[i] \/ HasDotSuffix(d, SAFE_DOMAINS[i])
  \/ HasDotSuffix(d, <<"g","o","v">>)
  \/ HasDotSuffix(d, <<"e","d","u">>)

\* C4: isAllowedSource is true exactly when the input parses as an absolute
\* URL whose lowercased hostname is an allow-list entry, ends with "." and an
\* allow-list entry, or ends with ".gov" or ".edu"; it is false for
\* example.com, for notwho.int and for input that does not parse.
C4_SourceRule ==
  srcResult # "pending" =>
     /\ srcResult = "true" <=>
          (NewURL(srcUrl).ok /\ HostnameTrusted(toLowerCase(NewURL(srcUrl).hostname)))
     /\ srcUrl \in { <<"h","t","t","p","s",":","/","/","e","x","a","m","p","l","e",".","c","o","m">>,
                     <<"h","t","t","p","s",":","/","/","n","o","t","w","h","o",".","i","n","t">>,
                     <<"n","o","t"," ","a"," ","u","r","l">> }
          => srcResult = "false"

C4_Witness ==
  /\ srcResult = "true"
  /\ srcUrl = <<"H","T","T","P","S",":","/","/","w","w","w",".","W","H","O",".","I","N","T","/","a">>

PreReasonsInOrder(p, rs) ==
  LET kinds == [i \in 1..Len(rs) |-> rs[i].kind]
      rank(k) == CASE k = "required" -> 1 [] k = "sourceCount" -> 2
                   [] k = "untrusted" -> 3 [] OTHER -> 0
  IN  /\ \A i \in 1..Len(rs) : rank(kinds[i]) > 0
      /\ \A i, j \in 1..Len(rs) : i < j => rank(kinds[i]) < rank(kinds[j])
      /\ (\E i \in 1..Len(rs) : kinds[i] = "required") <=> MissingField(p)
      /\ (\E i \in 1..Len(rs) : kinds[i] = "sourceCount") <=> BadCount(p)
      /\ (\E i \in 1..Len(rs) : kinds[i] = "untrusted") <=> Rejected(p) # {}
      /\ \A i \in 1..Len(rs) :
           /\ kinds[i] = "untrusted" =>
                /\ Len(rs[i].urls) = Cardinality(Rejected(p))
                /\ \A k \in 1..Len(rs[i].urls) :
                     \E n \in Rejected(p) :
                        /\ rs[i].urls[k] = p.sources.items[n]
                        /\ Cardinality({m \in Rejected(p) : m <= n}) = k
           /\ kinds[i] # "untrusted" => rs[i].urls = <<>>

BlockedPreShape(title) ==
  /\ body.keys = AllKeys
  /\ body.article.articleTitle = title
  /\ body.article.articleHtmlContent = <<>>
  /\ body.article.secondaryKeywords = [isArray |-> TRUE, items |-> <<>>]
  /\ body.metadata = [metaTitle |-> "", metaDescription |-> "",
                      socialTitle |-> "", socialDescription |-> ""]
  /\ body.gate.blocked
  /\ body.gate.claimsNeedingCitations = <<>>
  /\ body.gate.reasons = reasons
  /\ Len(reasons) > 0
  /\ PreReasonsInOrder(req, body.gate.reasons)

\* C5: a BLOCKED_PRE response has empty article and metadata fields,
\* gate.blocked true, no claimsNeedingCitations, and as gate.reasons the
\* pre-validation reasons in detection order.
C5_AllFieldsEmpty == BlockedPre => BlockedPreShape("")

\* C5 as amended: as above, except that articleTitle is the request's topic
\* when the request has a non-empty one.
C5_TitleEchoesTopic ==
  BlockedPre => BlockedPreShape(IF req.topic \in {"undefined", ""} THEN "" ELSE req.topic)

C5_Witness ==
  /\ BlockedPre
  /\ req.topic = "t"
  /\ body.article.articleTitle = "t"
  /\ Len(body.gate.reasons) = 3

FindingOrders ==
  { <<>>, <<"tooShort">>, <<"noDisclaimer">>, <<"fewKeywords">>,
    <<"tooShort", "noDisclaimer">>, <<"tooShort", "fewKeywords">>,
    <<"noDisclaimer", "fewKeywords">>,
    <<"tooShort", "noDisclaimer", "fewKeywords">> }

AppendedKinds ==
  LET a == Appended(genOut.gate.reasons, body.gate.reasons)
  IN  [i \in 1..Len(a) |-> a[i].kind]

\* C6: post-validation only appends: the self-reported reasons and
\* claimsNeedingCitations are prefixes of the final ones, the local findings
\* follow in the order too short, missing disclaimer, insufficient keywords,
\* and article and metadata are returned as generated.
C6_AppendOnly ==
  PostResponse =>
     /\ IsPrefix(genOut.gate.reasons, body.gate.reasons)
     /\ AppendedKinds \in FindingOrders
     /\ IsPrefix(genOut.gate.claimsNeedingCitations, body.gate.claimsNeedingCitations)
     /\ Appended(genOut.gate.claimsNeedingCitations, body.gate.claimsNeedingCitations)
          \in {<<>>, <<"uncitedClaims">>}
     /\ body.article = genOut.article
     /\ body.metadata = genOut.metadata
     /\ body.keys = genOut.keys

C6_Witness ==
  /\ PostResponse
  /\ genOut.gate.reasons # <<>>
  /\ genOut.gate.claimsNeedingCitations # <<>>
  /\ AppendedKinds = <<"tooShort", "noDisclaimer", "fewKeywords">>
  /\ Len(body.gate.claimsNeedingCitations) = 2

Delimiter(sym) == sym \in {" ", "PAD", "<", ">", "[", "]"}

\* a claim verb delimited by whitespace, punctuation or the ends of the text
WholeWordVerb(t) ==
  \E i \in 1..Len(t) :
     /\ t[i] = "V"
     /\ i = 1 \/ Delimiter(t[i-1])
     /\ i = Len(t) \/ Delimiter(t[i+1])

\* C7: exactly one entry is appended to claimsNeedingCitations if and only if
\* the tag-stripped text has a claim verb as a whole word and the HTML has no
\* "[n]" marker; otherwise none is appended.
C7_ClaimScanner ==
  PostResponse =>
     LET html  == genOut.article.articleHtmlContent
         added == Appended(genOut.gate.claimsNeedingCitations,
                           body.gate.claimsNeedingCitations)
     IN  /\ Len(added) \in {0, 1}
         /\ Len(added) = 1 <=> (WholeWordVerb(StripTags(html)) /\ ~hasCites(html))

\* C8: when the gpt5Structured invocation fails (it throws, or returns an
\* object that lacks article, metadata or gate), the request ends with a
\* failure status and a message, after a single invocation, and no
\* ArticleResponse is returned.
C8_FailurePropagates ==
  (pc = "done" /\ GenerationFailed) =>
     /\ status = 400
     /\ body.kind = "text"
     /\ body.message # ""
     /\ calls = 1

TooShortAppended == \E i \in 1..Len(AppendedKinds) : AppendedKinds[i] = "tooShort"

GeneratedWordCount == WordCount(StripTags(genOut.article.articleHtmlContent))

\* C9: the too-short reason is appended if and only if the tag-stripped
\* articleHtmlContent has fewer than 1200 whitespace-separated tokens:
\* appended at 1199, not appended at 1200.
C9_TooShortIff ==
  PostResponse =>
     /\ TooShortAppended <=> GeneratedWordCount < 1200
     /\ GeneratedWordCount = 1199 => TooShortAppended
     /\ GeneratedWordCount = 1200 => ~TooShortAppended

C9_Witness ==
  /\ PostResponse
  /\ GeneratedWordCount = 1199
  /\ TooShortAppended

\* C10: a response with gate.blocked false comes only from a request that
\* passed pre-validation, one returned generation, a text of at least 1200
\* tokens with the disclaimer and at least 3 secondary keywords, a clean
\* self-reported gate, and a text with no claim verb or with a citation marker.
C10_AcceptedOnlyIfAllChecks ==
  (pc = "done" /\ status = 200 /\ body.kind = "json" /\ ~body.gate.blocked) =>
     LET html == genOut.article.articleHtmlContent
         kw   == genOut.article.secondaryKeywords
     IN  /\ ~PreInvalid(req)
         /\ calls = 1
         /\ genResult = "returned"
         /\ GeneratedWordCount >= 1200
         /\ hasDisclaimer(StripTags(html))
         /\ kw.isArray /\ Len(kw.items) >= 3
         /\ ~genOut.gate.blocked
         /\ genOut.gate.reasons = <<>>
         /\ genOut.gate.claimsNeedingCitations = <<>>
         /\ ~WholeWordVerb(StripTags(html)) \/ hasCites(html)

====
